---- MODULE Spec2Model ----
(***************************************************************************)
(* Sahara Sahaya: the relief-centre ingestion pipeline (app.py), the       *)
(* disaster filter (utils/map_utils.py) and the admin upload flow of the   *)
(* Streamlit script.                                                       *)
(*                                                                         *)
(* A Python str is a sequence of one-character strings, so that strip,     *)
(* lower, split and float are computed character by character.  A missing  *)
(* cell (pandas NaN) is the marker NaN, which is no str.  A DataFrame is a *)
(* record [columns, data]: the column labels in order and the rows, each a *)
(* sequence of cells aligned with the labels.                              *)
(***************************************************************************)
EXTENDS Integers, Sequences, FiniteSets, TLC

VARIABLES
    \* standardise_columns applied to a table, then to its own result
    raw, out, out2, pc,
    \* load_relief_centers and filter_by_disaster
    csv, disaster, relief_df, filtered_df, fpc,
    \* the Streamlit script: configuration, st.session_state, the uploader
    \* widget, data/relief_centers.csv, and what the last run showed and did
    admin_pass, is_admin, user_coordinates, search_triggered, up_file, persisted,
    event, shown, uploader_shown, save_offered, wrote

normVars   == << raw, out, out2, pc >>
filterVars == << csv, disaster, relief_df, filtered_df, fpc >>
appVars    == << admin_pass, is_admin, user_coordinates, search_triggered, up_file,
                 persisted, event, shown, uploader_shown, save_offered, wrote >>

vars == << normVars, filterVars, appVars >>

(***************************************************************************)
(* Strings                                                                 *)
(***************************************************************************)
NaN == << "NaN" >>

EMPTY == << >>

\* the characters str.strip() and float() treat as whitespace
WS == { " ", "\t", "\n", "\r", "\f" }

UPPER == << "A","B","C","D","E","F","G","H","I","J","K","L","M",
            "N","O","P","Q","R","S","T","U","V","W","X","Y","Z" >>
LOWER == << "a","b","c","d","e","f","g","h","i","j","k","l","m",
            "n","o","p","q","r","s","t","u","v","w","x","y","z" >>
DIGITS == << "0","1","2","3","4","5","6","7","8","9" >>

lower_char(c) ==
    IF \E i \in DOMAIN UPPER : UPPER[i] = c
    THEN LOWER[CHOOSE i \in DOMAIN UPPER : UPPER[i] = c]
    ELSE c

\* str.lower()
str_lower(s) == [i \in 1..Len(s) |-> lower_char(s[i])]

RECURSIVE lstrip(_)
lstrip(s) == IF s # << >> /\ Head(s) \in WS THEN lstrip(Tail(s)) ELSE s

RECURSIVE rstrip(_)
rstrip(s) ==
    IF s # << >> /\ s[Len(s)] \in WS THEN rstrip(SubSeq(s, 1, Len(s) - 1)) ELSE s

\* str.strip()
str_strip(s) == rstrip(lstrip(s))

\* position of the first character of s that is in set cs, 0 when there is none
FirstIn(s, cs) ==
    IF \E i \in 1..Len(s) : s[i] \in cs
    THEN CHOOSE i \in 1..Len(s) : s[i] \in cs /\ \A j \in 1..(i - 1) : s[j] \notin cs
    ELSE 0

\* re.split / str.split on any character of seps: the list of pieces
RECURSIVE str_split(_, _)
str_split(s, seps) ==
    LET k == FirstIn(s, seps)
    IN  IF k = 0 THEN << s >>
        ELSE << SubSeq(s, 1, k - 1) >> \o str_split(SubSeq(s, k + 1, Len(s)), seps)

(***************************************************************************)
(* float(x) of Python, for the comparison with an integer bound.           *)
(* The decimal value is kept exactly as digits and the place of the point; *)
(* binary64 rounding cannot change a comparison with 90 or 180 for the     *)
(* short strings of this model.                                            *)
(***************************************************************************)
IsDigit(c) == \E i \in DOMAIN DIGITS : DIGITS[i] = c

DigitVal(c) == (CHOOSE i \in DOMAIN DIGITS : DIGITS[i] = c) - 1

RECURSIVE IntOf(_)
IntOf(ds) ==
    IF ds = << >> THEN 0
    ELSE IntOf(SubSeq(ds, 1, Len(ds) - 1)) * 10 + DigitVal(ds[Len(ds)])

\* a run of digits, with single underscores allowed between digits
DigitRun(r) ==
    /\ r # << >>
    /\ \A i \in 1..Len(r) : IsDigit(r[i]) \/ r[i] = "_"
    /\ IsDigit(r[1]) /\ IsDigit(r[Len(r)])
    /\ \A i \in 1..(Len(r) - 1) : ~(r[i] = "_" /\ r[i + 1] = "_")

DigitsOf(r) == SelectSeq(r, IsDigit)

RECURSIVE DropZeros(_)
DropZeros(ds) == IF ds # << >> /\ Head(ds) = "0" THEN DropZeros(Tail(ds)) ELSE ds

Unsigned(s) == IF s # << >> /\ Head(s) \in { "+", "-" } THEN Tail(s) ELSE s

\* float(x): ok is FALSE where Python raises ValueError or TypeError; the value
\* is digits with the decimal point after the first `point` of them
Float(ok, finite, neg, digits, point) ==
    [ok |-> ok, finite |-> finite, neg |-> neg, digits |-> digits, point |-> point]

NotANumber == Float(FALSE, FALSE, FALSE, << >>, 0)

\* the exponent after "e", saturated beyond four digits
Exponent(negative, ds) ==
    IF Len(ds) > 4 THEN (IF negative THEN -10000 ELSE 10000)
    ELSE IF negative THEN 0 - IntOf(ds) ELSE IntOf(ds)

ExponentOf(ex) ==
    IF ex = << >> THEN 0
    ELSE Exponent(Head(ex) = "-", DropZeros(DigitsOf(Unsigned(ex))))

\* integer part ip, fraction fp, exponent text ex
Decimal(neg, ip, fp, hasDot, ex, hasExp) ==
    IF /\ IF hasDot
          THEN /\ ip = << >> \/ DigitRun(ip)
               /\ fp = << >> \/ DigitRun(fp)
               /\ ip # << >> \/ fp # << >>
          ELSE DigitRun(ip)
       /\ hasExp => DigitRun(Unsigned(ex))
    THEN Float(TRUE, TRUE, neg, DigitsOf(ip) \o DigitsOf(fp),
               Len(DigitsOf(ip)) + ExponentOf(ex))
    ELSE NotANumber

Mantissa(neg, mant, dot, ex, hasExp) ==
    IF dot = 0 THEN Decimal(neg, mant, << >>, FALSE, ex, hasExp)
    ELSE Decimal(neg, SubSeq(mant, 1, dot - 1), SubSeq(mant, dot + 1, Len(mant)),
                 TRUE, ex, hasExp)

Scientific(neg, b, e) ==
    IF e = 0 THEN Mantissa(neg, b, FirstIn(b, { "." }), << >>, FALSE)
    ELSE Mantissa(neg, SubSeq(b, 1, e - 1), FirstIn(SubSeq(b, 1, e - 1), { "." }),
                  SubSeq(b, e + 1, Len(b)), TRUE)

Signed(neg, b) ==
    IF str_lower(b) \in { << "i","n","f" >>, << "i","n","f","i","n","i","t","y" >>,
                          << "n","a","n" >> }
    THEN Float(TRUE, FALSE, neg, << >>, 0)
    ELSE Scientific(neg, b, FirstIn(b, { "e", "E" }))

Stripped(t) == Signed(t # << >> /\ Head(t) = "-", Unsigned(t))

float(x) ==
    IF x = NaN THEN Float(TRUE, FALSE, FALSE, << >>, 0) ELSE Stripped(str_strip(x))

\* the number ds with the point after its first p digits is <= bound
DigitsLe(ds, p, bound) ==
    IF ds = << >> \/ p <= 0 THEN TRUE
    ELSE IF p > 4 THEN FALSE
    ELSE \/ IntOf([i \in 1..p |-> IF i <= Len(ds) THEN ds[i] ELSE "0"]) < bound
         \/ /\ IntOf([i \in 1..p |-> IF i <= Len(ds) THEN ds[i] ELSE "0"]) = bound
            /\ \A i \in (p + 1)..Len(ds) : ds[i] = "0"

Significant(f, ds, bound) == DigitsLe(ds, f.point - (Len(f.digits) - Len(ds)), bound)

\* |f| <= bound, for a finite f and 0 <= bound <= 9999
AbsLe(f, bound) == Significant(f, DropZeros(f.digits), bound)

\* lo <= f <= hi as Python compares a float: False for nan, for lo <= 0 <= hi
Between(lo, f, hi) ==
    /\ f.finite
    /\ IF f.neg THEN AbsLe(f, 0 - lo) ELSE AbsLe(f, hi)

(***************************************************************************)
(* app.py: REQUIRED_COLS and ALIASES                                       *)
(***************************************************************************)
c_name == <<"n","a","m","e">>
c_type == <<"t","y","p","e">>
c_latitude == <<"l","a","t","i","t","u","d","e">>
c_longitude == <<"l","o","n","g","i","t","u","d","e">>
c_inventory == <<"i","n","v","e","n","t","o","r","y">>
c_last_updated == <<"l","a","s","t","_","u","p","d","a","t","e","d">>
c_contact == <<"c","o","n","t","a","c","t">>
c_supported_disasters == <<"s","u","p","p","o","r","t","e","d","_","d","i","s","a","s","t","e","r","s">>

REQUIRED_COLS ==
    << c_name, c_type, c_latitude, c_longitude,
       c_inventory, c_last_updated, c_contact, c_supported_disasters >>

ALIASES_name ==
    << <<"h","o","s","p","i","t","a","l","_","n","a","m","e">>,
       <<"f","a","c","i","l","i","t","y"," ","n","a","m","e">>,
       <<"s","t","a","t","i","o","n"," ","n","a","m","e">>,
       <<"c","e","n","t","r","e"," ","n","a","m","e">>,
       <<"c","e","n","t","e","r"," ","n","a","m","e">>,
       c_name >>
ALIASES_type ==
    << <<"h","o","s","p","i","t","a","l","_","c","a","t","e","g","o","r","y">>,
       <<"c","a","t","e","g","o","r","y">>,
       <<"h","o","s","p","i","t","a","l","_","t","y","p","e">>,
       <<"c","e","n","t","r","e"," ","t","y","p","e">>,
       c_type >>
ALIASES_latitude ==
    << <<"l","a","t">>,
       c_latitude,
       <<"l","a","t","i","t","u","d","e","(","d","d",")">>,
       <<"l","a","t","_","d","d">> >>
ALIASES_longitude ==
    << <<"l","o","n">>,
       <<"l","o","n","g">>,
       c_longitude,
       <<"l","o","n","g","i","t","u","d","e","(","d","d",")">>,
       <<"l","n","g">>,
       <<"l","n","g","_","d","d">> >>
ALIASES_contact ==
    << <<"m","o","b","i","l","e","_","n","u","m","b","e","r">>,
       <<"m","o","b","i","l","e">>,
       <<"t","e","l","e","p","h","o","n","e">>,
       <<"p","h","o","n","e">>,
       c_contact,
       <<"p","h","o","n","e","_","n","o">>,
       <<"p","h","o","n","e"," ","n","u","m","b","e","r">> >>

\* the keys of ALIASES in the order the dict lists them
ALIAS_TARGETS == << c_name, c_type, c_latitude, c_longitude, c_contact >>

ALIASES(target) ==
    CASE target = c_name      -> ALIASES_name
      [] target = c_type      -> ALIASES_type
      [] target = c_latitude  -> ALIASES_latitude
      [] target = c_longitude -> ALIASES_longitude
      [] target = c_contact   -> ALIASES_contact

c_location_coordinates ==
    << "l","o","c","a","t","i","o","n","_","c","o","o","r","d","i","n","a","t","e","s" >>

c_mobile_number == << "m","o","b","i","l","e","_","n","u","m","b","e","r" >>

s_General == << "G","e","n","e","r","a","l" >>

LAT_MAX == 90
LON_MAX == 180

(***************************************************************************)
(* DataFrames                                                              *)
(***************************************************************************)
Frame(columns, data) == [raised |-> FALSE, columns |-> columns, data |-> data]

\* an exception left standardise_columns
Raised == [raised |-> TRUE, columns |-> << >>, data |-> << >>]

\* no DataFrame yet
NoFrame == Frame(<< >>, << >>)

\* `label in df.columns`, and `label in df`
HasCol(df, label) == \E i \in 1..Len(df.columns) : df.columns[i] = label

Positions(df, label) == { i \in 1..Len(df.columns) : df.columns[i] = label }

Pos(df, label) == CHOOSE i \in Positions(df, label) : TRUE

\* df[label] for a label that names one column: the Series of its cells
Column(df, label) ==
    LET k == Pos(df, label) IN [r \in 1..Len(df.data) |-> df.data[r][k]]

\* df[label] = series, on frames that share their index.  A frame without
\* rows takes the index of a non-empty series, its other cells being NaN;
\* a new label is appended as the last column.
SetItem(df, label, series) ==
    LET cols == IF HasCol(df, label) THEN df.columns ELSE Append(df.columns, label)
        k    == IF HasCol(df, label) THEN Pos(df, label) ELSE Len(cols)
        n    == IF Len(df.data) = 0 THEN Len(series) ELSE Len(df.data)
        old(r, c) == IF r <= Len(df.data) /\ c <= Len(df.columns)
                     THEN df.data[r][c] ELSE NaN
    IN  Frame(cols,
              [r \in 1..n |->
                  [c \in 1..Len(cols) |->
                      IF c = k
                      THEN (IF r <= Len(series) THEN series[r] ELSE NaN)
                      ELSE old(r, c)]])

\* df[label] = scalar
SetScalar(df, label, value) ==
    SetItem(df, label, [r \in 1..Len(df.data) |-> value])

\* df[mask]: the rows whose mask is TRUE, in order
RECURSIVE SelectRows(_, _)
SelectRows(data, mask) ==
    IF data = << >> THEN << >>
    ELSE LET rest == SelectRows(Tail(data), Tail(mask))
         IN  IF Head(mask) THEN << Head(data) >> \o rest ELSE rest

Where(df, mask) == Frame(df.columns, SelectRows(df.data, mask))

(***************************************************************************)
(* app.py: standardise_columns                                             *)
(***************************************************************************)
\* line 62: df.columns = [c.strip().lower() for c in df.columns]
NormaliseHeader(df) ==
    Frame([i \in 1..Len(df.columns) |-> str_lower(str_strip(df.columns[i]))], df.data)

\* line 64: out = pd.DataFrame(columns=REQUIRED_COLS)
EmptyOut == Frame(REQUIRED_COLS, << >>)

\* variant: a target without any alias in the header is looked up all the same
RECURSIVE MapAlias_strict(_, _, _, _)
MapAlias_strict(o, df, target, cands) ==
    IF cands = << >> THEN Raised
    ELSE IF HasCol(df, Head(cands))
         THEN IF Cardinality(Positions(df, Head(cands))) > 1
              THEN Raised
              ELSE SetItem(o, target, Column(df, Head(cands)))
         ELSE MapAlias_strict(o, df, target, Tail(cands))

\* variant: the first column of the header that is an alias wins, not the
\* first alias of the priority list
MapAlias_header_order(o, df, target, cands) ==
    LET hits == { i \in 1..Len(df.columns) :
                    \E k \in 1..Len(cands) : cands[k] = df.columns[i] }
        first == CHOOSE i \in hits : \A j \in hits : i <= j
    IN  IF hits = { } THEN o
        ELSE SetItem(o, target, [r \in 1..Len(df.data) |-> df.data[r][first]])

\* lines 68-71: the first candidate that is in df.columns is copied, then break.
\* A candidate that names several columns makes df[cand] a DataFrame, and the
\* assignment to the single column raises.
RECURSIVE MapAlias(_, _, _, _)
MapAlias(o, df, target, cands) ==
    IF cands = << >> THEN o
    ELSE IF HasCol(df, Head(cands))
         THEN IF Cardinality(Positions(df, Head(cands))) > 1
              THEN Raised
              ELSE SetItem(o, target, Column(df, Head(cands)))
         ELSE MapAlias(o, df, target, Tail(cands))

\* lines 67-71
RECURSIVE MapAliases(_, _, _)
MapAliases(o, df, targets) ==
    IF targets = << >> \/ o.raised THEN o
    ELSE MapAliases(MapAlias(o, df, Head(targets), ALIASES(Head(targets))),
                    df, Tail(targets))

\* line 75: df["location_coordinates"].str.split(",", expand=True)[k]
CoordPart(cell, k) ==
    IF cell = NaN THEN NaN
    ELSE LET parts == str_split(cell, { "," })
         IN  IF k <= Len(parts) THEN parts[k] ELSE NaN

CoordWidth(df) ==
    LET col == Column(df, c_location_coordinates)
        W   == { IF col[r] = NaN THEN 0 ELSE Len(str_split(col[r], { "," }))
                 : r \in 1..Len(col) }
    IN  IF W = { } THEN 0 ELSE CHOOSE w \in W : \A v \in W : v <= w

\* lines 74-77
SplitCoordinates(o, df) ==
    IF o.raised THEN o
    ELSE IF /\ HasCol(df, c_location_coordinates)
            /\ (~HasCol(o, c_latitude) \/ ~HasCol(o, c_longitude))
    THEN IF Cardinality(Positions(df, c_location_coordinates)) > 1 \/ CoordWidth(df) < 2
         THEN Raised
         ELSE LET col  == Column(df, c_location_coordinates)
                  lat  == IF HasCol(o, c_latitude) THEN Column(o, c_latitude)
                          ELSE [r \in 1..Len(col) |-> CoordPart(col[r], 1)]
                  o1   == SetItem(o, c_latitude, lat)
                  lon  == IF HasCol(o1, c_longitude) THEN Column(o1, c_longitude)
                          ELSE [r \in 1..Len(col) |-> CoordPart(col[r], 2)]
              IN  SetItem(o1, c_longitude, lon)
    ELSE o

\* lines 80-82
RECURSIVE FillMissingCols(_, _)
FillMissingCols(o, cols) ==
    IF cols = << >> \/ o.raised THEN o
    ELSE FillMissingCols(IF ~HasCol(o, Head(cols)) THEN SetScalar(o, Head(cols), EMPTY)
                         ELSE o,
                         Tail(cols))

\* lines 85-86
PreferMobile(o, df) ==
    IF o.raised THEN o
    ELSE IF /\ HasCol(df, c_mobile_number)
            /\ LET contact == Column(o, c_contact)
               IN  \A r \in 1..Len(o.data) : contact[r] = EMPTY
    THEN IF Cardinality(Positions(df, c_mobile_number)) > 1 THEN Raised
         ELSE SetItem(o, c_contact, Column(df, c_mobile_number))
    ELSE o

InRange(f, bound) == f.ok /\ Between(0 - bound, f, bound)

\* variant: the latitude check with the longitude bound
good_lat_wide(x) == InRange(float(x), LON_MAX)

\* lines 89-94
good_lat(x) == InRange(float(x), LAT_MAX)

\* lines 95-100
good_lon(x) == InRange(float(x), LON_MAX)

\* line 102
GeoFilter(o) ==
    IF o.raised THEN o
    ELSE LET lat == Column(o, c_latitude)
             lon == Column(o, c_longitude)
         IN  Where(o, [r \in 1..Len(o.data) |-> good_lat(lat[r]) /\ good_lon(lon[r])])

ESSENTIALS == << c_name, c_type, c_latitude, c_longitude, c_contact >>

\* line 106: dropna(subset=essentials)
DropNa(o) ==
    LET subset == [i \in 1..Len(ESSENTIALS) |-> Column(o, ESSENTIALS[i])]
    IN  Where(o, [r \in 1..Len(o.data) |->
                     \A i \in 1..Len(ESSENTIALS) : subset[i][r] # NaN])

\* variant: the query compares the trimmed cells with ""
QueryNonEmpty_trimmed(o) ==
    LET name    == Column(o, c_name)
        type    == Column(o, c_type)
        contact == Column(o, c_contact)
    IN  Where(o, [r \in 1..Len(o.data) |->
                     /\ str_strip(name[r]) # EMPTY
                     /\ str_strip(type[r]) # EMPTY
                     /\ str_strip(contact[r]) # EMPTY])

\* line 106: query("name != '' and type != '' and contact != ''")
QueryNonEmpty(o) ==
    LET name    == Column(o, c_name)
        type    == Column(o, c_type)
        contact == Column(o, c_contact)
    IN  Where(o, [r \in 1..Len(o.data) |->
                     name[r] # EMPTY /\ type[r] # EMPTY /\ contact[r] # EMPTY])

\* lines 105-106
EssentialFilter(o) == IF o.raised THEN o ELSE QueryNonEmpty(DropNa(o))

\* Series.fillna(value)
FillNa(series, value) ==
    [r \in 1..Len(series) |-> IF series[r] = NaN THEN value ELSE series[r]]

\* Series.replace(old, new)
Replace(series, old, new) ==
    [r \in 1..Len(series) |-> IF series[r] = old THEN new ELSE series[r]]

\* lines 109-111
OptionalDefaults(o) ==
    IF o.raised THEN o
    ELSE LET o1 == SetItem(o, c_inventory, FillNa(Column(o, c_inventory), EMPTY))
             o2 == SetItem(o1, c_last_updated, FillNa(Column(o1, c_last_updated), EMPTY))
         IN  SetItem(o2, c_supported_disasters,
                     Replace(Column(o2, c_supported_disasters), EMPTY, s_General))

\* lines 59-113
standardise_columns(input) ==
    LET df == NormaliseHeader(input)
        o1 == MapAliases(EmptyOut, df, ALIAS_TARGETS)
        o2 == SplitCoordinates(o1, df)
        o3 == FillMissingCols(o2, REQUIRED_COLS)
        o4 == PreferMobile(o3, df)
        o5 == GeoFilter(o4)
        o6 == EssentialFilter(o5)
    IN  OptionalDefaults(o6)

(***************************************************************************)
(* utils/map_utils.py                                                      *)
(***************************************************************************)
\* .str.replace(r"\s+", "", regex=True): every run of whitespace is removed
RECURSIVE remove_whitespace(_)
remove_whitespace(s) ==
    IF s = << >> THEN << >>
    ELSE IF Head(s) \in WS THEN remove_whitespace(Tail(s))
    ELSE << Head(s) >> \o remove_whitespace(Tail(s))

\* variant: only "," separates the tags
split_tags_commas(cell) ==
    LET filled == IF cell = NaN THEN EMPTY ELSE cell
    IN  str_split(remove_whitespace(filled), { "," })

\* lines 9-15, on one cell of the column pd.read_csv returned
split_tags(cell) ==
    LET filled == IF cell = NaN THEN EMPTY ELSE cell
    IN  str_split(remove_whitespace(filled), { "|", "," })

\* lines 5-16: rows keep their index label
load_relief_centers(column) ==
    [r \in 1..Len(column) |-> [index |-> r - 1, supported_disasters |-> split_tags(column[r])]]

\* lines 21-24
matches(lst, d) ==
    \E i \in 1..Len(lst) : lst[i] # EMPTY /\ d = str_lower(lst[i])

\* lines 18-26
filter_by_disaster(df, d) ==
    LET lowered == str_lower(d)
        keep(row) == matches(row.supported_disasters, lowered)
    IN  SelectSeq(df, keep)

(***************************************************************************)
(* Input tables for standardise_columns                                    *)
(***************************************************************************)
MaxRows == 2
MaxOdd  == 1

h_Name    == << " ","N","a","m","e"," " >>
h_TYPE    == << "T","Y","P","E" >>
h_Lat     == << "L","a","t" >>
h_Long    == << "L","o","n","g"," " >>
h_Contact == << "C","o","n","t","a","c","t" >>
h_lat     == << "l","a","t" >>
h_lon     == << "l","o","n" >>
h_long    == << "l","o","n","g" >>
h_foo     == << "f","o","o" >>
h_FOO     == << " ","F","O","O"," " >>
h_bar     == << "b","a","r" >>

\* headers as read_any_file returns them: labels differ before normalisation
Headers ==
    { REQUIRED_COLS,
      << h_Name, h_TYPE, h_Lat, h_Long, h_Contact >>,
      << h_Lat, h_Long, c_location_coordinates, c_name, c_type, c_contact >>,
      << c_name, c_type, c_contact, c_mobile_number, c_location_coordinates >>,
      << c_latitude, h_lat, h_long, h_lon, c_name, c_type, c_contact >>,
      << h_Name, c_name >>,
      << h_foo, h_bar >>,
      << h_foo, h_FOO >>,
      << c_inventory, c_supported_disasters, h_foo >>,
      << >> }

\* the cell most cells hold: a str that is a valid name, type, contact,
\* latitude and longitude at once
v_45 == << "4","5",".","0" >>

v_blank   == << " " >>
v_91      == << "9","1" >>
v_200     == << "2","0","0" >>
v_pair    == << "1","2",".","9",",","7","7",".","6" >>
v_neg     == << "-","1",".","2","9","e","1" >>

OddCells == { NaN, EMPTY, v_blank, v_91, v_200, v_pair, v_neg }

\* the subsets of S with at most k elements
RECURSIVE UpTo(_, _)
UpTo(S, k) ==
    IF k = 0 THEN { { } }
    ELSE LET smaller == UpTo(S, k - 1)
         IN  smaller \cup { T \cup { x } : T \in smaller, x \in S }

\* the tables with header h and n rows in which all cells hold v_45 but at
\* most MaxOdd cells of one row
TablesOf(h, n) ==
    { Frame(h, [r \in 1..n |->
                  [c \in 1..Len(h) |->
                      IF r = row /\ c \in DOMAIN val THEN val[c] ELSE v_45]])
      : row \in 1..(IF n = 0 THEN 1 ELSE n),
        val \in UNION { [odd -> OddCells] : odd \in UpTo(1..Len(h), MaxOdd) } }
(***************************************************************************)
(* Files an admin uploads, and the configuration                           *)
(***************************************************************************)
NoFile == [present |-> FALSE, readable |-> FALSE, table |-> NoFrame]

File(table) == [present |-> TRUE, readable |-> TRUE, table |-> table]

Unreadable == [present |-> TRUE, readable |-> FALSE, table |-> NoFrame]

h_Loose == << h_Name, h_TYPE, h_Lat, h_Long, h_Contact >>

Uploads ==
    { File(Frame(h_Loose, << << v_45, v_45, v_45, v_45, v_45 >> >>)),
      File(Frame(h_Loose, << << v_45, v_45, v_91, v_45, v_45 >>,
                             << v_blank, v_45, v_neg, v_200, v_45 >>,
                             << v_blank, v_45, v_neg, v_45, NaN >>,
                             << v_blank, v_45, v_neg, v_45, v_45 >> >>)),
      File(Frame(h_Loose, << << v_45, v_45, v_91, v_45, v_45 >> >>)),
      File(Frame(h_Loose, << >>)),
      File(Frame(<< h_foo, h_bar >>, << << v_45, v_45 >> >>)),
      File(Frame(<< h_Name, c_name >>, << << v_45, v_45 >> >>)),
      Unreadable }

\* data/relief_centers.csv as it is before any upload is saved
InitialDataset ==
    Frame(REQUIRED_COLS,
          << << v_45, v_45, v_45, v_45, v_45, v_45, v_45, s_General >> >>)

Passwords == { "s3cret", "guess", "" }

\* ADMIN_PASS as configured, "" when it is not set (lines 125-128)
AdminPasses == { "s3cret", "" }

Lookups == { "None", "coords" }

(***************************************************************************)
(* app.py: the script, run from top to bottom once per widget event        *)
(***************************************************************************)
\* lines 39-57: a DataFrame of str cells, or an exception
read_any_file(uploaded) == IF uploaded.readable THEN uploaded.table ELSE Raised

\* line 260: to_csv(index=False) writes a missing cell as an empty field
to_csv(df) ==
    Frame(df.columns,
          [r \in 1..Len(df.data) |->
              [c \in 1..Len(df.columns) |->
                  IF df.data[r][c] = NaN THEN EMPTY ELSE df.data[r][c]]])

\* lines 137-142: the session's admin flag after the login block
LoginBlock(clicked, pwd) ==
    IF clicked /\ pwd = admin_pass THEN TRUE ELSE is_admin

LoginShown(clicked, pwd) ==
    IF ~clicked THEN { }
    ELSE IF pwd = admin_pass THEN { "Admin privileges granted" } ELSE { "Wrong password" }

\* variant: the upload section is shown to everyone
ADMIN_everyone(flag) == TRUE

\* line 144
ADMIN(flag) == flag

\* lines 158-174: both location buttons store what the lookup found, if anything
LocationBlock(clicked, found) ==
    IF clicked /\ found # "None" THEN found ELSE user_coordinates

LocationShown(clicked, found) ==
    IF ~clicked THEN { }
    ELSE IF found # "None" THEN { "Location found" } ELSE { "Location not found" }

\* lines 184-188
SearchBlock(clicked, coords) ==
    IF clicked /\ coords # "None" THEN TRUE ELSE search_triggered

SearchShown(clicked, coords) ==
    IF clicked /\ coords = "None" THEN { "Please provide or detect your location first" }
    ELSE { }

\* lines 191-193: the results section reads the dataset and writes nothing
ResultsShown(coords, triggered) ==
    IF triggered /\ coords # "None" THEN { "Showing relief resources" } ELSE { }

\* lines 246-251: read and normalise, any exception caught together
ReadAndClean(uploaded) ==
    LET raw_df == read_any_file(uploaded)
    IN  IF raw_df.raised THEN Raised ELSE standardise_columns(raw_df)

\* ReadAndClean of every file of the model, computed once
Cleaned == [f \in Uploads \cup { NoFile } |-> ReadAndClean(f)]

Clean(uploaded) == Cleaned[uploaded]

\* line 253
Empty(df) == Len(df.data) = 0

\* variant: the Save button is rendered after the if/else
SaveButton_always(clean_df) == TRUE

\* lines 253-259: the Save button is rendered in the branch of a non-empty result
SaveButton(clean_df) == ~Empty(clean_df)

\* lines 239-265
UploadShown(admin, uploaded, clean_df, save) ==
    IF ~ADMIN(admin) THEN { "Admin features hidden" }
    ELSE IF ~uploaded.present THEN { }
    ELSE IF clean_df.raised THEN { "Could not read file" }
    ELSE IF Empty(clean_df) THEN { "No valid records" }
    ELSE { "Loaded verified rows" }
         \cup (IF save /\ SaveButton(clean_df) THEN { "Dataset saved" } ELSE { })

\* lines 259-261, and the end of the run
Effects(ev, click, pwd, found, admin, coords, trig, file, clean_df, offered) ==
    /\ is_admin' = admin
    /\ user_coordinates' = coords
    /\ search_triggered' = trig
    /\ up_file' = file
    /\ uploader_shown' = ADMIN(admin)
    /\ save_offered' = offered
    /\ wrote' = (offered /\ click = "save")
    /\ persisted' = IF offered /\ click = "save" THEN to_csv(clean_df) ELSE persisted
    /\ shown' = LoginShown(click = "login", pwd)
                    \cup LocationShown(click = "locate", found)
                    \cup SearchShown(click = "search", coords)
                    \cup ResultsShown(coords, trig)
                    \cup UploadShown(admin, file, clean_df, click = "save")
    /\ event' = ev
    /\ UNCHANGED admin_pass

\* lines 245-259: the Save button exists in a run of an admin whose file was
\* read and normalised to at least one row
UploadBlock(ev, click, pwd, found, admin, coords, trig, file, clean_df) ==
    Effects(ev, click, pwd, found, admin, coords, trig, file, clean_df,
            ADMIN(admin) /\ file.present /\ ~clean_df.raised /\ SaveButton(clean_df))

\* lines 239-244: the uploader is rendered, and has a value, for an admin only
AdminBlock(ev, click, pwd, found, admin, coords, trig, file) ==
    UploadBlock(ev, click, pwd, found, admin, coords, trig, file, Clean(file))

Sections(ev, click, pwd, found, admin, coords, uploaded) ==
    AdminBlock(ev, click, pwd, found, admin, coords,
               SearchBlock(click = "search", coords),
               IF ADMIN(admin) THEN uploaded ELSE NoFile)

\* one run of the script.  click is the button pressed to cause it, if any;
\* pwd the password field; found what the location lookup returns; uploaded
\* the uploader's value during the run.
Run(ev, click, pwd, found, uploaded) ==
    Sections(ev, click, pwd, found,
             LoginBlock(click = "login", pwd),
             LocationBlock(click = "locate", found),
             uploaded)

(***************************************************************************)
(* Input columns and disaster types for the filter                         *)
(***************************************************************************)
MaxCentres == 2

d_Flood      == << "F","l","o","o","d" >>
d_Earthquake == << "E","a","r","t","h","q","u","a","k","e" >>
d_Fire       == << "F","i","r","e" >>
d_Cyclone    == << "C","y","c","l","o","n","e" >>
d_Other      == << "O","t","h","e","r" >>
d_flood      == << "f","l","o","o","d" >>
d_CYCLONE    == << "C","Y","C","L","O","N","E" >>

\* line 177 of app.py lists the first five; the others are spelled differently
Disasters == { d_Flood, d_Earthquake, d_Fire, d_Cyclone, d_Other, d_flood, d_CYCLONE }

t_FloodCyclone == << "F","l","o","o","d","|","C","y","c","l","o","n","e" >>
t_flood_fire   == << "f","l","o","o","d",","," ","f","i","r","e" >>
t_Fire_padded  == << " ","F","i","r","e"," " >>
t_Fl_ood       == << "F","l"," ","o","o","d","," >>
t_bar          == << "|" >>
t_Floods       == << "F","l","o","o","d","s" >>
t_Other_FLOOD  == << "O","t","h","e","r","|","F","L","O","O","D" >>

TagCells == { NaN, EMPTY, t_FloodCyclone, t_flood_fire, t_Fire_padded, s_General,
              t_Fl_ood, t_bar, t_Floods, t_Other_FLOOD }

RECURSIVE SeqsUpTo(_, _)
SeqsUpTo(S, n) ==
    IF n = 0 THEN { << >> }
    ELSE LET shorter == SeqsUpTo(S, n - 1)
         IN  shorter \cup { Append(s, x) : s \in shorter, x \in S }

(***************************************************************************)
(* Specifications                                                          *)
(***************************************************************************)
NormIdle == raw = NoFrame /\ out = NoFrame /\ out2 = NoFrame /\ pc = "idle"

FilterIdle ==
    /\ csv = << >> /\ disaster = EMPTY
    /\ relief_df = << >> /\ filtered_df = << >> /\ fpc = "idle"

\* a session before its first widget event
Fresh ==
    /\ is_admin = FALSE
    /\ user_coordinates = "None"
    /\ search_triggered = FALSE
    /\ up_file = NoFile
    /\ event = "open"
    /\ shown = { "Admin features hidden" }
    /\ uploader_shown = FALSE
    /\ save_offered = FALSE
    /\ wrote = FALSE

AppIdle == admin_pass = "" /\ persisted = InitialDataset /\ Fresh

\* ---- standardise_columns applied to a table, then to its own result ----
InitNorm ==
    /\ \E h \in Headers, n \in 0..MaxRows : raw \in TablesOf(h, n)
    /\ out = NoFrame
    /\ out2 = NoFrame
    /\ pc = "start"
    /\ FilterIdle
    /\ AppIdle

Standardise ==
    /\ pc = "start"
    /\ out' = standardise_columns(raw)
    /\ pc' = "done"
    /\ UNCHANGED << raw, out2, filterVars, appVars >>

Restandardise ==
    /\ pc = "done"
    /\ ~out.raised
    /\ out2' = standardise_columns(out)
    /\ pc' = "again"
    /\ UNCHANGED << raw, out, filterVars, appVars >>

NextNorm == Standardise \/ Restandardise

SpecNorm == InitNorm /\ [][NextNorm]_vars

\* ---- load_relief_centers, then filter_by_disaster ----
InitFilter ==
    /\ csv \in SeqsUpTo(TagCells, MaxCentres)
    /\ disaster \in Disasters
    /\ relief_df = << >>
    /\ filtered_df = << >>
    /\ fpc = "file"
    /\ NormIdle
    /\ AppIdle

Load ==
    /\ fpc = "file"
    /\ relief_df' = load_relief_centers(csv)
    /\ fpc' = "loaded"
    /\ UNCHANGED << csv, disaster, filtered_df, normVars, appVars >>

Filter ==
    /\ fpc = "loaded"
    /\ filtered_df' = filter_by_disaster(relief_df, disaster)
    /\ fpc' = "filtered"
    /\ UNCHANGED << csv, disaster, relief_df, normVars, appVars >>

NextFilter == Load \/ Filter

SpecFilter == InitFilter /\ [][NextFilter]_vars

\* ---- the Streamlit script ----
Init ==
    /\ admin_pass \in AdminPasses
    /\ persisted = InitialDataset
    /\ Fresh
    /\ NormIdle
    /\ FilterIdle

\* lines 132-133, 153-154, 181-182: a new session starts from the defaults
NewSession ==
    /\ is_admin' = FALSE
    /\ user_coordinates' = "None"
    /\ search_triggered' = FALSE
    /\ up_file' = NoFile
    /\ event' = "open"
    /\ shown' = { "Admin features hidden" }
    /\ uploader_shown' = FALSE
    /\ save_offered' = FALSE
    /\ wrote' = FALSE
    /\ UNCHANGED << admin_pass, persisted, normVars, filterVars >>

Login ==
    /\ \E pwd \in Passwords : Run("login", "login", pwd, "None", up_file)
    /\ UNCHANGED << normVars, filterVars >>

Locate ==
    /\ \E found \in Lookups : Run("locate", "locate", "", found, up_file)
    /\ UNCHANGED << normVars, filterVars >>

Search ==
    /\ Run("search", "search", "", "None", up_file)
    /\ UNCHANGED << normVars, filterVars >>

\* a radio button, select box or text field changed
OtherWidget ==
    /\ Run("other", "none", "", "None", up_file)
    /\ UNCHANGED << normVars, filterVars >>

Upload ==
    /\ uploader_shown
    /\ \E f \in Uploads : Run("upload", "none", "", "None", f)
    /\ UNCHANGED << normVars, filterVars >>

ClearUpload ==
    /\ uploader_shown
    /\ up_file.present
    /\ Run("clear", "none", "", "None", NoFile)
    /\ UNCHANGED << normVars, filterVars >>

Save ==
    /\ save_offered
    /\ Run("save", "save", "", "None", up_file)
    /\ UNCHANGED << normVars, filterVars >>

Next ==
    \/ NewSession \/ Login \/ Locate \/ Search \/ OtherWidget
    \/ Upload \/ ClearUpload \/ Save

Spec == Init /\ [][Next]_vars

(***************************************************************************)
(* What the claims say of a table, stated on the input                     *)
(***************************************************************************)
Normal(label) == str_lower(str_strip(label))

LabelsOf(header) == { Normal(header[i]) : i \in 1..Len(header) }

HeaderLabels == [h \in Headers |-> LabelsOf(h)]

Labels(t) == HeaderLabels[t.columns]

\* for each target of ALIAS_TARGETS, in that order: the input column of the
\* first alias, in priority order, that the normalised header holds; 0 if none
SourcesOf(header) ==
    LET labels == [i \in 1..Len(header) |-> Normal(header[i])]
        first(target) ==
            LET cands == ALIASES(target)
                here  == { k \in 1..Len(cands) :
                             \E i \in 1..Len(labels) : labels[i] = cands[k] }
            IN  IF here = { } THEN 0 ELSE CHOOSE k \in here : \A j \in here : k <= j
        column(target) ==
            IF first(target) = 0 THEN 0
            ELSE CHOOSE i \in 1..Len(labels) : labels[i] = ALIASES(target)[first(target)]
    IN  [j \in 1..Len(ALIAS_TARGETS) |-> column(ALIAS_TARGETS[j])]

HeaderSources == [h \in Headers |-> SourcesOf(h)]

SourceColumns(t) == HeaderSources[t.columns]

TargetNo(target) == CHOOSE j \in 1..Len(ALIAS_TARGETS) : ALIAS_TARGETS[j] = target

Resolved(sc, target) == sc[TargetNo(target)] # 0

\* the cell of input row r in the column the target resolves to
Src(sc, t, r, target) ==
    IF Resolved(sc, target) THEN t.data[r][sc[TargetNo(target)]] ELSE NaN

Number(f, lo, hi) == f.ok /\ Between(lo, f, hi)

NumberIn(x, lo, hi) == x # NaN /\ Number(float(x), lo, hi)

Given(x) == x # NaN /\ x # EMPTY

\* cell of output row k of frame o under a canonical label
Cell(o, k, label) ==
    o.data[k][CHOOSE i \in 1..Len(REQUIRED_COLS) : REQUIRED_COLS[i] = label]

s_12_9 == << "1","2",".","9" >>
s_77_6 == << "7","7",".","6" >>

Returned == pc = "done" /\ ~out.raised

\* C1: every returned row has a latitude that parses as a number in [-90, 90],
\* a longitude that parses as a number in [-180, 180], and name, type and
\* contact present and not ""; no returned row has latitude "91", nor latitude
\* "45.0" with longitude "200".
C1_RowsValid ==
    Returned =>
        \A k \in 1..Len(out.data) :
            /\ NumberIn(Cell(out, k, c_latitude), -90, 90)
            /\ NumberIn(Cell(out, k, c_longitude), -180, 180)
            /\ Given(Cell(out, k, c_name))
            /\ Given(Cell(out, k, c_type))
            /\ Given(Cell(out, k, c_contact))
            /\ Cell(out, k, c_latitude) # v_91
            /\ ~(Cell(out, k, c_latitude) = v_45 /\ Cell(out, k, c_longitude) = v_200)

\* a two-row table lost exactly its row with latitude "91", or its row with
\* longitude "200"
C1_Witness ==
    LET sc == SourceColumns(raw)
    IN  /\ Returned
        /\ Len(raw.data) = 2 /\ Len(out.data) = 1
        /\ \E r \in 1..2 :
              \/ Src(sc, raw, r, c_latitude) = v_91
              \/ /\ Src(sc, raw, r, c_latitude) = v_45
                 /\ Src(sc, raw, r, c_longitude) = v_200

Canonical(t) ==
    /\ t.columns = REQUIRED_COLS
    /\ \A r \in 1..Len(t.data) :
          /\ NumberIn(Cell(t, r, c_latitude), -90, 90)
          /\ NumberIn(Cell(t, r, c_longitude), -180, 180)
          /\ \A i \in 1..Len(REQUIRED_COLS) : Given(t.data[r][i])

\* C2: standardise_columns returns a canonical table (non-empty optional
\* fields included) unchanged, and applied to its own result it returns that
\* result.
C2_Idempotent ==
    /\ (pc = "done" /\ Canonical(raw)) => out = raw
    /\ pc = "again" => out2 = out

\* C3: with a location_coordinates column and no latitude or longitude alias, a
\* row with location_coordinates "12.9,77.6" and valid name, type and contact
\* is returned with latitude "12.9" and longitude "77.6".
C3_CoordinatesSplit ==
    LET sc == SourceColumns(raw)
    IN  pc = "done" =>
        \A r \in 1..Len(raw.data) :
            ( /\ c_location_coordinates \in Labels(raw)
              /\ ~Resolved(sc, c_latitude)
              /\ ~Resolved(sc, c_longitude)
              /\ raw.data[r][CHOOSE i \in 1..Len(raw.columns) :
                                Normal(raw.columns[i]) = c_location_coordinates] = v_pair
              /\ Given(Src(sc, raw, r, c_name))
              /\ Given(Src(sc, raw, r, c_type))
              /\ Given(Src(sc, raw, r, c_contact)) )
            => /\ ~out.raised
               /\ \E k \in 1..Len(out.data) :
                     /\ Cell(out, k, c_latitude) = s_12_9
                     /\ Cell(out, k, c_longitude) = s_77_6

\* C4: no returned row has a missing supported_disasters; it is "General" when
\* the input has no such column or an empty value, and inventory and
\* last_updated are "" when missing.
C4_Defaults ==
    Returned =>
        \A k \in 1..Len(out.data) :
            /\ Cell(out, k, c_supported_disasters) # NaN
            /\ Cell(out, k, c_supported_disasters) # EMPTY
            /\ c_supported_disasters \notin Labels(raw)
                  => Cell(out, k, c_supported_disasters) = s_General
            /\ Cell(out, k, c_inventory) # NaN
            /\ Cell(out, k, c_last_updated) # NaN
            /\ c_inventory \notin Labels(raw) => Cell(out, k, c_inventory) = EMPTY
            /\ c_last_updated \notin Labels(raw) => Cell(out, k, c_last_updated) = EMPTY

\* the strictly increasing maps from the returned rows to the input rows
Embeddings ==
    { f \in [1..Len(out.data) -> 1..Len(raw.data)] :
        \A i, j \in 1..Len(out.data) : i < j => f[i] < f[j] }

\* C6: each of name, type, latitude, longitude and contact of a returned row
\* is the cell of its input row in the column of the first alias, in priority
\* order, that the trimmed, lower-cased header holds, whatever the column
\* order; the location_coordinates column is never the source.
C6_FirstAliasWins ==
    LET sc == SourceColumns(raw)
    IN  Returned =>
        \E f \in Embeddings :
            \A k \in 1..Len(out.data) :
                \A i \in 1..Len(ALIAS_TARGETS) :
                    Cell(out, k, ALIAS_TARGETS[i]) = Src(sc, raw, f[k], ALIAS_TARGETS[i])

\* a returned row whose latitude came from the "lat" column although the
\* header lists "latitude" first, the two cells differing
C6_Witness ==
    /\ Returned
    /\ Len(out.data) > 0
    /\ Len(raw.columns) > 1
    /\ Normal(raw.columns[1]) = c_latitude /\ Normal(raw.columns[2]) = h_lat
    /\ raw.data[1][1] # raw.data[1][2]
    /\ Cell(out, 1, c_latitude) = raw.data[1][2]

NoAliasInHeader(t) ==
    /\ \A j \in 1..Len(ALIAS_TARGETS) : SourceColumns(t)[j] = 0
    /\ c_location_coordinates \notin Labels(t)

\* C7: a table whose normalised header holds no alias and no
\* location_coordinates column yields the 8 canonical columns and no row,
\* without an exception, however many rows it has.
C7_UnknownHeaderEmpty ==
    (pc = "done" /\ NoAliasInHeader(raw)) =>
        /\ ~out.raised
        /\ out.columns = REQUIRED_COLS
        /\ out.data = << >>

C7_Witness ==
    /\ pc = "done"
    /\ NoAliasInHeader(raw)
    /\ Len(raw.columns) > 0
    /\ Len(raw.data) > 1

Blank(x) == x # NaN /\ str_strip(x) = EMPTY

\* C9 as the spec states it: no returned row has a name, type or contact that
\* is empty once surrounding whitespace is removed.
C9_TrimmedNonEmpty ==
    Returned =>
        \A k \in 1..Len(out.data) :
            /\ ~Blank(Cell(out, k, c_name))
            /\ ~Blank(Cell(out, k, c_type))
            /\ ~Blank(Cell(out, k, c_contact))

KeptUntrimmed(sc, r) ==
    /\ NumberIn(Src(sc, raw, r, c_latitude), -90, 90)
    /\ NumberIn(Src(sc, raw, r, c_longitude), -180, 180)
    /\ Given(Src(sc, raw, r, c_name))
    /\ Given(Src(sc, raw, r, c_type))
    /\ Given(Src(sc, raw, r, c_contact))

\* C9, amended: the essential-field filter compares with "" without trimming:
\* the returned rows are as many as the input rows with valid coordinates whose
\* name, type and contact are present and differ from "", a whitespace-only
\* cell counting as present.
C9_UntrimmedFilter ==
    LET sc == SourceColumns(raw)
    IN  Returned =>
            Len(out.data) = Cardinality({ r \in 1..Len(raw.data) : KeptUntrimmed(sc, r) })

\* a row with the name " " was returned
C9_Witness ==
    /\ Returned
    /\ \E r \in 1..Len(raw.data) : Src(SourceColumns(raw), raw, r, c_name) = v_blank
    /\ \E k \in 1..Len(out.data) : Cell(out, k, c_name) = v_blank

NonWhite(c) == c \notin WS

\* the cell, whitespace removed, has between two separators (or ends) a
\* non-empty tag that equals d when both are lower-cased
Tagged(cell, d) ==
    /\ cell # NaN
    /\ LET s    == SelectSeq(cell, NonWhite)
           seps == { ",", "|" }
       IN  \E i \in 1..Len(s) : \E j \in i..Len(s) :
               /\ \A k \in i..j : s[k] \notin seps
               /\ i = 1 \/ s[i - 1] \in seps
               /\ j = Len(s) \/ s[j + 1] \in seps
               /\ str_lower(SubSeq(s, i, j)) = str_lower(d)

\* C8: filter_by_disaster keeps exactly the loaded rows whose cell has the
\* disaster as a tag, case-insensitively, in their order; an empty or missing
\* cell matches nothing.
C8_FilterExact ==
    fpc = "filtered" =>
        /\ \A k \in 1..Len(filtered_df) :
              Tagged(csv[filtered_df[k].index + 1], disaster)
        /\ \A k \in 1..(Len(filtered_df) - 1) :
              filtered_df[k].index < filtered_df[k + 1].index
        /\ Len(filtered_df) = Cardinality({ r \in 1..Len(csv) : Tagged(csv[r], disaster) })

\* "Flood|Cyclone" was kept for "CYCLONE" and the other row dropped
C8_Witness ==
    /\ fpc = "filtered"
    /\ disaster = d_CYCLONE
    /\ Len(csv) = 2
    /\ Len(filtered_df) = 1
    /\ csv[filtered_df[1].index + 1] = t_FloodCyclone

\* C5: data/relief_centers.csv is written only by a run of an admin session
\* caused by the Save button, with an uploaded file that was read and
\* normalised without an exception; every other run leaves it as it was.
C5_SaveOnly ==
    [][ (persisted' # persisted \/ wrote') =>
            /\ is_admin /\ is_admin'
            /\ event' = "save"
            /\ up_file'.present /\ up_file'.readable
            /\ ~ReadAndClean(up_file').raised
            /\ wrote'
            /\ persisted' = to_csv(ReadAndClean(up_file')) ]_vars

C5_Witness == wrote /\ persisted # InitialDataset

\* C10 as the spec states it: when an upload normalises to zero rows a
\* warning, not an error, is shown and the empty table can be saved.
C10_EmptySaveAllowed ==
    "No valid records" \in shown =>
        /\ "Could not read file" \notin shown
        /\ save_offered

\* C10, amended: when an upload normalises to zero rows a warning, not an
\* error, is shown and no Save button is rendered; the dataset is never
\* replaced by a table without rows.
C10_EmptyNeverSaved ==
    /\ "No valid records" \in shown =>
          /\ "Could not read file" \notin shown
          /\ ~save_offered
          /\ ~wrote
    /\ wrote => ~Empty(persisted)

C10_Witness ==
    /\ "No valid records" \in shown
    /\ is_admin
    /\ up_file.present

====
